---------------------------- MODULE Spec2Model ----------------------------
(***************************************************************************)
(* Model of the MCP9600 thermocouple amplifier driver                      *)
(* (src/adafruit_mcp9600.py).                                              *)
(*                                                                         *)
(* The driver owns a 3-byte scratch buffer (self.buf) and talks to the     *)
(* chip through an I2CDevice: a plain write at construction and a combined *)
(* write-then-read for every query.  The bus log `bus` records every       *)
(* transaction the driver hands to the I2CDevice, with the bytes of the    *)
(* write phase and the offset/length of the read phase.                    *)
(*                                                                         *)
(* Temperatures are floats in the source: unpack(">xH")*0.0625, minus 4096 *)
(* when the sign test fires.  Both operations are exact in binary floating *)
(* point for 16-bit inputs, so a temperature is modelled as an integer     *)
(* number of sixteenths of a degree.                                       *)
(***************************************************************************)
EXTENDS Integers, Sequences, FiniteSets, TLC

VARIABLES
    phase,      \* "unbound" before __init__, "ready" once it returned, "failed" once it raised
    buf,        \* self.buf, a bytearray(3): a function 0..2 -> 0..255
    type,       \* self.type
    bus,        \* summary of every transaction handed to the I2CDevice, oldest first
    wire,       \* the last transaction in full: the bytes of its write phase included
    calls,      \* the operations called on the driver, oldest first
    call,       \* the last call made on the driver and how it ended
    thr         \* concurrent callers: each thread's position inside its query

vars == <<phase, buf, type, bus, wire, calls, call, thr>>

----------------------------------------------------------------------------
(* Bounds of the model *)

\* queries made on one driver instance in the sequential specification
MaxQueries == 3

\* filter levels offered to the constructor are -FilterRange..FilterRange
FilterRange == 100

----------------------------------------------------------------------------
(* Program constants *)

REGISTER_HOT_JUNCTION == 0

REGISTER_DELTA_TEMP == 1

REGISTER_COLD_JUNCTION == 2

REGISTER_THERM_CFG == 5

REGISTER_VERSION == 32

\* len(self.buf)
BUF_LEN == 3

\* value -= 4096
SIGN_CORRECTION == 4096

\* 1 / 0.0625: the scale factor is one sixteenth of a degree per count
SCALE_DIV == 16

\* data[1] & 0x80
SIGN_MASK == 128

\* min(7, max(0, tcfilter))
FILTER_MAX == 7

\* ttype << 4
TYPE_SHIFT == 4

\* the count every property passes to _read_register
READ_COUNT == 2

types == <<"K", "J", "T", "N", "S", "E", "B", "R">>

Byte == 0..255

None == "None"

----------------------------------------------------------------------------
(* Python's integer operators on non-negative integers *)

RECURSIVE BitAnd(_, _)
BitAnd(a, b) ==
    IF a = 0 \/ b = 0 THEN 0
    ELSE (IF a % 2 = 1 /\ b % 2 = 1 THEN 1 ELSE 0) + 2 * BitAnd(a \div 2, b \div 2)

RECURSIVE BitOr(_, _)
BitOr(a, b) ==
    IF a = 0 THEN b
    ELSE IF b = 0 THEN a
    ELSE (IF a % 2 = 1 \/ b % 2 = 1 THEN 1 ELSE 0) + 2 * BitOr(a \div 2, b \div 2)

RECURSIVE Shl(_, _)
Shl(a, n) ==
    IF n = 0 THEN a ELSE Shl(2 * a, n - 1)

Min(a, b) ==
    IF a <= b THEN a ELSE b

Max(a, b) ==
    IF a >= b THEN a ELSE b

\* tuple.index(x): zero-based position of the first element equal to x
TupleIndex(tup, x) ==
    (CHOOSE i \in 1..Len(tup) : tup[i] = x /\ \A j \in 1..(i - 1) : tup[j] # x) - 1

\* x in tup
TupleHas(tup, x) ==
    \E i \in 1..Len(tup) : tup[i] = x

\* b[lo:hi] of a bytearray, as a sequence
Slice(b, lo, hi) ==
    [i \in 1..Max(0, Min(hi, BUF_LEN) - lo) |-> b[lo + i - 1]]

\* bytearray(3)
ZeroBuf ==
    [i \in 0..(BUF_LEN - 1) |-> 0]

----------------------------------------------------------------------------
(* Floats that are multiples of 0.0625: whole degrees plus sixteenths *)

\* n * 0.0625
Scaled(n) ==
    [whole |-> n \div SCALE_DIV, frac |-> n % SCALE_DIV]

\* v - d for a whole number of degrees d
Minus(v, d) ==
    [v EXCEPT !.whole = @ - d]

\* a value as a number of sixteenths of a degree
Sixteenths(v) ==
    v.whole * SCALE_DIV + v.frac

----------------------------------------------------------------------------
(* The bus collaborator as the driver drives it *)

\* what the device does with one transaction: whether it succeeds, and the
\* bytes that arrive in the read phase (all of them on success, fewer before
\* a failure)
Responses(D) ==
    [ok : {TRUE}, data : [1..(BUF_LEN - 1) -> D]]
      \cup [ok : {FALSE}, data : {<<>>} \cup [1..(BUF_LEN - 2) -> D]]

\* readinto(b, start=in_start): the bytes received land at b[in_start], ...
ReadInto(b, in_start, data) ==
    [i \in 0..(BUF_LEN - 1) |->
        IF i >= in_start /\ i - in_start < Len(data) THEN data[i - in_start + 1] ELSE b[i]]

NoTxn ==
    [kind |-> None, out |-> <<>>, in_start |-> 0, in_len |-> 0, ok |-> TRUE]

\* the summary of a transaction kept in the log
Summary(t) ==
    [kind |-> t.kind, addr |-> IF Len(t.out) > 0 THEN t.out[1] ELSE None,
     out_len |-> Len(t.out), in_start |-> t.in_start, in_len |-> t.in_len, ok |-> t.ok]

RECURSIVE Summaries(_)
Summaries(ts) ==
    IF ts = <<>> THEN <<>> ELSE <<Summary(Head(ts))>> \o Summaries(Tail(ts))

----------------------------------------------------------------------------
(* MCP9600.__init__ *)

\* faulty variant: the clamp written max(7, min(0, tcfilter))
ConfigByte_swapped_clamp(tctype, tcfilter) ==
    LET clamped == Max(FILTER_MAX, Min(0, tcfilter))
        ttype == TupleIndex(types, tctype)
    IN  BitOr(clamped, Shl(ttype, TYPE_SHIFT))

\* tcfilter | (ttype << 4), after the clamp of tcfilter
ConfigByte(tctype, tcfilter) ==
    LET clamped == Min(FILTER_MAX, Max(0, tcfilter))
        ttype == TupleIndex(types, tctype)
    IN  BitOr(clamped, Shl(ttype, TYPE_SHIFT))

\* faulty variant: no membership test, an unknown type configured as index 0
init_unchecked(tctype, tcfilter, ok) ==
    LET ttype == IF TupleHas(types, tctype) THEN TupleIndex(types, tctype) ELSE 0
        clamped == Min(FILTER_MAX, Max(0, tcfilter))
        b == [ZeroBuf EXCEPT ![0] = REGISTER_THERM_CFG,
                             ![1] = BitOr(clamped, Shl(ttype, TYPE_SHIFT))]
    IN  [buf |-> b, type |-> tctype,
         raised |-> IF ok THEN None ELSE "BusIoError",
         txns |-> <<[kind |-> "write", out |-> Slice(b, 0, 2),
                     in_start |-> 0, in_len |-> 0, ok |-> ok]>>]

\* The whole constructor: the buffer it leaves, what it raised (None when it
\* returned) and the transactions it handed to the I2CDevice.  I2CDevice(i2c,
\* address) binds the handle before the type is validated; the write happens
\* inside `with self.i2c_device`, which lets an error of the bus through.
\* The source raises a bare Exception for an unknown type; it is named
\* InvalidConfiguration here.
init(tctype, tcfilter, ok) ==
    IF ~TupleHas(types, tctype)
    THEN [buf |-> ZeroBuf, type |-> tctype, raised |-> "InvalidConfiguration",
          txns |-> <<>>]
    ELSE LET b == [ZeroBuf EXCEPT ![0] = REGISTER_THERM_CFG,
                                  ![1] = ConfigByte(tctype, tcfilter)]
         IN  [buf |-> b, type |-> tctype,
              raised |-> IF ok THEN None ELSE "BusIoError",
              txns |-> <<[kind |-> "write", out |-> Slice(b, 0, 2),
                          in_start |-> 0, in_len |-> 0, ok |-> ok]>>]

----------------------------------------------------------------------------
(* MCP9600._read_register *)

\* faulty variant: the register address stored at offset 1
store_reg_offset1(b, reg) ==
    [b EXCEPT ![1] = reg]

\* self.buf[0] = reg
store_reg(b, reg) ==
    [b EXCEPT ![0] = reg]

\* faulty variant: in_start=2, the first payload byte lands on self.buf[2]
write_then_readinto_in_start2(b, count, resp) ==
    LET in_start == 2
    IN  [buf |-> ReadInto(b, in_start, resp.data),
         raised |-> IF resp.ok THEN None ELSE "BusIoError",
         txns |-> <<[kind |-> "write_then_readinto", out |-> Slice(b, 0, count),
                     in_start |-> in_start, in_len |-> BUF_LEN - in_start,
                     ok |-> resp.ok]>>]

\* with self.i2c_device as i2c:
\*     i2c.write_then_readinto(self.buf, self.buf, out_end=count, in_start=1)
\* The write phase sends self.buf[0:count]; the read phase fills self.buf[1:],
\* in_end defaulting to len(self.buf).  One transaction, no handler around it.
write_then_readinto(b, count, resp) ==
    LET in_start == 1
    IN  [buf |-> ReadInto(b, in_start, resp.data),
         raised |-> IF resp.ok THEN None ELSE "BusIoError",
         txns |-> <<[kind |-> "write_then_readinto", out |-> Slice(b, 0, count),
                     in_start |-> in_start, in_len |-> BUF_LEN - in_start,
                     ok |-> resp.ok]>>]

\* faulty variant: a plain write of the address, then a separate read
read_register_split(b, reg, count, resp) ==
    LET b1 == [b EXCEPT ![0] = reg]
    IN  [buf |-> ReadInto(b1, 1, resp.data),
         raised |-> IF resp.ok THEN None ELSE "BusIoError",
         txns |-> <<[kind |-> "write", out |-> Slice(b1, 0, 1),
                     in_start |-> 0, in_len |-> 0, ok |-> TRUE],
                    [kind |-> "readinto", out |-> <<>>,
                     in_start |-> 1, in_len |-> BUF_LEN - 1, ok |-> resp.ok]>>]

\* faulty variant: a failed transaction is attempted a second time
read_register_retry(b, reg, count, resp) ==
    LET b1 == [b EXCEPT ![0] = reg]
        t == [kind |-> "write_then_readinto", out |-> Slice(b1, 0, count),
              in_start |-> 1, in_len |-> BUF_LEN - 1, ok |-> resp.ok]
    IN  [buf |-> ReadInto(b1, 1, resp.data),
         raised |-> IF resp.ok THEN None ELSE "BusIoError",
         txns |-> IF resp.ok THEN <<t>> ELSE <<t, t>>]

read_register(b, reg, count, resp) ==
    write_then_readinto(store_reg(b, reg), count, resp)

----------------------------------------------------------------------------
(* The properties *)

\* unpack(">xH", data)[0]: a pad byte, then a big-endian unsigned short
unpack_xH(data) ==
    data[1] * 256 + data[2]

\* faulty variant: ">H", no pad byte
version_value_no_pad(data) ==
    data[0] * 256 + data[1]

version_value(data) ==
    unpack_xH(data)

ambient_temperature_value(data) ==
    Scaled(unpack_xH(data))

\* faulty variant: no sign correction
ambient_temperature_return_unsigned(data, value) ==
    value

ambient_temperature_return(data, value) ==
    IF BitAnd(data[1], SIGN_MASK) # 0 THEN Minus(value, SIGN_CORRECTION) ELSE value

temperature_value(data) ==
    Scaled(unpack_xH(data))

\* faulty variant: the sign taken from data[2]
temperature_return_low_byte(data, value) ==
    IF BitAnd(data[2], SIGN_MASK) # 0 THEN Minus(value, SIGN_CORRECTION) ELSE value

temperature_return(data, value) ==
    IF BitAnd(data[1], SIGN_MASK) # 0 THEN Minus(value, SIGN_CORRECTION) ELSE value

delta_temperature_value(data) ==
    Scaled(unpack_xH(data))

delta_temperature_return(data, value) ==
    IF BitAnd(data[1], SIGN_MASK) # 0 THEN Minus(value, SIGN_CORRECTION) ELSE value

Ops == {"version", "ambient_temperature", "temperature", "delta_temperature"}

TempOps == Ops \ {"version"}

\* the register each property passes to _read_register
Register(op) ==
    CASE op = "version" -> REGISTER_VERSION
      [] op = "ambient_temperature" -> REGISTER_COLD_JUNCTION
      [] op = "temperature" -> REGISTER_HOT_JUNCTION
      [] op = "delta_temperature" -> REGISTER_DELTA_TEMP

\* the first statement after _read_register returned
Value(op, data) ==
    CASE op = "version" -> version_value(data)
      [] op = "ambient_temperature" -> ambient_temperature_value(data)
      [] op = "temperature" -> temperature_value(data)
      [] op = "delta_temperature" -> delta_temperature_value(data)

\* the sign test and the return of a temperature property
Return(op, data, value) ==
    CASE op = "ambient_temperature" -> ambient_temperature_return(data, value)
      [] op = "temperature" -> temperature_return(data, value)
      [] op = "delta_temperature" -> delta_temperature_return(data, value)
      [] OTHER -> value

\* a whole property, called with no other caller on the instance
property(op, b, resp) ==
    LET r == read_register(b, Register(op), READ_COUNT, resp)
    IN  [buf |-> r.buf, raised |-> r.raised, txns |-> r.txns,
         value |-> IF r.raised = None
                   THEN Return(op, r.buf, Value(op, r.buf))
                   ELSE None]

----------------------------------------------------------------------------
(* Sequential use: one caller *)

NoCall ==
    [op |-> None, tctype |-> None, tcfilter |-> None, resp |-> None,
     raised |-> None, value |-> None, ntxn |-> 0]

Idle ==
    [t \in {} |-> None]

Init ==
    /\ phase = "unbound"
    /\ buf = ZeroBuf
    /\ type = None
    /\ bus = <<>>
    /\ wire = NoTxn
    /\ calls = <<>>
    /\ call = NoCall
    /\ thr = Idle

\* MCP9600(i2c, address, tctype, tcfilter)
Construct(tctype, tcfilter) ==
    /\ phase = "unbound"
    /\ \E ok \in BOOLEAN : \E r \in {init(tctype, tcfilter, ok)} :
             /\ phase' = IF r.raised = None THEN "ready" ELSE "failed"
             /\ buf' = r.buf
             /\ type' = r.type
             /\ bus' = bus \o Summaries(r.txns)
             /\ wire' = IF r.txns = <<>> THEN wire ELSE r.txns[Len(r.txns)]
             /\ calls' = Append(calls, "__init__")
             /\ call' = [NoCall EXCEPT !.op = "__init__", !.tctype = tctype,
                                       !.tcfilter = tcfilter, !.raised = r.raised,
                                       !.ntxn = Len(r.txns)]
    /\ UNCHANGED thr

\* device.version, device.temperature, ... : one property read
Query(op, D) ==
    /\ phase = "ready"
    /\ Len(calls) <= MaxQueries
    /\ \E resp \in Responses(D) : \E r \in {property(op, buf, resp)} :
             /\ buf' = r.buf
             /\ bus' = bus \o Summaries(r.txns)
             /\ wire' = IF r.txns = <<>> THEN wire ELSE r.txns[Len(r.txns)]
             /\ calls' = Append(calls, op)
             /\ call' = [NoCall EXCEPT !.op = op, !.resp = resp, !.raised = r.raised,
                                       !.value = r.value, !.ntxn = Len(r.txns)]
    /\ UNCHANGED <<phase, type, thr>>

\* inputs of the sequential specification
TypeInputs == {"K", "T", "X"}

FilterInputs == {-1, 9}

DeviceBytes == {1, 144}

Next ==
    \/ \E t \in TypeInputs, f \in FilterInputs : Construct(t, f)
    \/ \E op \in Ops : Query(op, DeviceBytes)

Spec == Init /\ [][Next]_vars

----------------------------------------------------------------------------
(* Construction over the whole input range *)

\* the eight thermocouple types and some symbols that are none of them
ConstructTypes ==
    {types[i] : i \in 1..Len(types)} \cup {"X", "k", "", "KJ"}

NextConstruct ==
    \E t \in ConstructTypes, f \in (0 - FilterRange)..FilterRange : Construct(t, f)

SpecConstruct == Init /\ [][NextConstruct]_vars

----------------------------------------------------------------------------
(* One query on a freshly constructed driver, over every register content *)

\* MCP9600(i2c): tctype="K", tcfilter=0
ConstructDefault ==
    Construct("K", 0)

FirstQuery(op) ==
    /\ Len(calls) = 1
    /\ Query(op, Byte)

NextDecode ==
    \/ ConstructDefault
    \/ \E op \in Ops : FirstQuery(op)

SpecDecode == Init /\ [][NextDecode]_vars

----------------------------------------------------------------------------
(* Two callers on one instance.  A property runs as the statements of the     *)
(* source run: the store of the register address, the transaction (made      *)
(* under the I2CDevice's lock, so it is one step), the unpack of self.buf    *)
(* and, for a temperature, the sign test on self.buf.  _read_register        *)
(* returns self.buf itself, so the decode reads the shared buffer.           *)

Threads == {"A", "B"}

IdleThread ==
    [pc |-> "idle", op |-> None, addressed |-> None, payload |-> <<>>,
     value |-> None]

InCall(t) ==
    thr.th[t].pc \in {"store", "bus", "unpack", "sign"}

ConcInit ==
    /\ phase = "unbound"
    /\ buf = ZeroBuf
    /\ type = None
    /\ bus = <<>>
    /\ wire = NoTxn
    /\ calls = <<>>
    /\ call = NoCall
    /\ thr = [overlapped |-> FALSE, th |-> [t \in Threads |-> IdleThread]]

\* a thread reads a property; `overlapped` records that it did so while the
\* other thread was inside a property
T_call(t, op) ==
    /\ phase = "ready"
    /\ thr.th[t].pc = "idle"
    /\ thr' = [thr EXCEPT !.overlapped = @ \/ \E u \in Threads \ {t} : InCall(u),
                          !.th[t].pc = "store", !.th[t].op = op]
    /\ calls' = Append(calls, op)
    /\ UNCHANGED <<phase, buf, type, bus, wire, call>>

\* self.buf[0] = reg
T_store(t) ==
    /\ thr.th[t].pc = "store"
    /\ buf' = store_reg(buf, Register(thr.th[t].op))
    /\ thr' = [thr EXCEPT !.th[t].pc = "bus"]
    /\ UNCHANGED <<phase, type, bus, wire, calls, call>>

\* with self.i2c_device as i2c: i2c.write_then_readinto(...)
T_bus(t, D) ==
    /\ thr.th[t].pc = "bus"
    /\ \E resp \in Responses(D) : \E r \in {write_then_readinto(buf, READ_COUNT, resp)} :
             /\ buf' = r.buf
             /\ bus' = bus \o Summaries(r.txns)
             /\ wire' = r.txns[Len(r.txns)]
             /\ thr' = [thr EXCEPT !.th[t].pc = IF r.raised = None THEN "unpack"
                                                                   ELSE "raised",
                                   !.th[t].addressed = r.txns[1].out[1],
                                   !.th[t].payload = resp.data]
    /\ UNCHANGED <<phase, type, calls, call>>

\* unpack(">xH", data)[0] (* 0.0625); version returns it
T_unpack(t) ==
    /\ thr.th[t].pc = "unpack"
    /\ thr' = [thr EXCEPT !.th[t].value = Value(thr.th[t].op, buf),
                          !.th[t].pc = IF thr.th[t].op = "version" THEN "done"
                                                                    ELSE "sign"]
    /\ UNCHANGED <<phase, buf, type, bus, wire, calls, call>>

\* if data[1] & 0x80: value -= 4096; return value
T_sign(t) ==
    /\ thr.th[t].pc = "sign"
    /\ thr' = [thr EXCEPT !.th[t].value = Return(thr.th[t].op, buf, thr.th[t].value),
                          !.th[t].pc = "done"]
    /\ UNCHANGED <<phase, buf, type, bus, wire, calls, call>>

ConcOps == {"version", "temperature"}

NextConc ==
    \/ \E t \in TypeInputs, f \in FilterInputs : Construct(t, f)
    \/ \E t \in Threads, op \in ConcOps : T_call(t, op)
    \/ \E t \in Threads : T_store(t)
    \/ \E t \in Threads : T_bus(t, DeviceBytes)
    \/ \E t \in Threads : T_unpack(t)
    \/ \E t \in Threads : T_sign(t)

SpecConc == ConcInit /\ [][NextConc]_vars

----------------------------------------------------------------------------
(* Properties.  The reference values below are written from the register    *)
(* map, not from the driver's operators.                                    *)

\* the last call was a property read that returned
Returned(ops) ==
    call.op \in ops /\ call.raised = None

\* the two payload bytes the device sent in the last call, first one first
Hi == call.resp.data[1]

Lo == call.resp.data[2]

Raw == 256 * Hi + Lo

\* 16-bit two's complement
TwosComplement16(raw) ==
    IF raw < 32768 THEN raw ELSE raw - 65536

\* a well-formed temperature, as a number of sixteenths
TempSixteenths(v) ==
    IF v.frac \in 0..15 THEN 16 * v.whole + v.frac ELSE 0 - 1000000

(* C1 as stated: every temperature read returns raw * 0.0625 when bit 7 of   *)
(* the second payload byte (lo) is clear and raw * 0.0625 - 4096 when it is  *)
(* set.                                                                     *)
C1_SignFromLowByte ==
    Returned(TempOps) =>
        TempSixteenths(call.value) = IF Lo >= 128 THEN Raw - 65536 ELSE Raw

(* C1 amended: every temperature read returns raw * 0.0625 when bit 7 of the *)
(* first payload byte (hi) is clear and raw * 0.0625 - 4096 when it is set.  *)
C1_SignFromHighByte ==
    Returned(TempOps) =>
        TempSixteenths(call.value) = IF (Hi \div 128) % 2 = 1 THEN Raw - 65536 ELSE Raw

\* bytes [0x00, 0x80]: bit 7 of lo set, of hi clear; the read returns 8.0
C1_Witness ==
    /\ Returned({"temperature"})
    /\ call.resp.data = <<0, 128>>
    /\ call.value = [whole |-> 8, frac |-> 0]

(* C2: every temperature read returns the 16-bit two's-complement value of   *)
(* the big-endian register pair times 0.0625, the -4096 correction applied   *)
(* exactly when bit 15 is set; the result lies in [-2048, 2047.9375], and    *)
(* bytes [0x01, 0x90] read as 25.0.                                          *)
C2_TwosComplement ==
    Returned(TempOps) =>
        /\ TempSixteenths(call.value) = TwosComplement16(Raw)
        /\ TempSixteenths(call.value) >= 0 - 2048 * 16
        /\ TempSixteenths(call.value) <= 2047 * 16 + 15
        /\ (Raw >= 32768 <=> TempSixteenths(call.value) = Raw - 4096 * 16)
        /\ (call.resp.data = <<1, 144>> => call.value = [whole |-> 25, frac |-> 0])

\* bytes [0x80, 0x80]: bit 15 set, the read returns -2040.0
C2_Witness ==
    /\ Returned({"ambient_temperature"})
    /\ call.resp.data = <<128, 128>>
    /\ call.value = [whole |-> 0 - 2040, frac |-> 0]

\* the type index table of the register map
TypeIndex ==
    [t \in {"K", "J", "T", "N", "S", "E", "B", "R"} |->
        CASE t = "K" -> 0 [] t = "J" -> 1 [] t = "T" -> 2 [] t = "N" -> 3
          [] t = "S" -> 4 [] t = "E" -> 5 [] t = "B" -> 6 [] t = "R" -> 7]

Clamp07(f) ==
    IF f < 0 THEN 0 ELSE IF f > 7 THEN 7 ELSE f

(* C3: for a thermocouple type among the eight and any filter level in       *)
(* [-100, 100] the constructor raises no error of its own (it returns as     *)
(* soon as the bus takes the write), and the one transaction it issues is    *)
(* the write of [0x05, c], c = clamp(f, 0, 7) | (index(t) << 4): high nibble *)
(* the type index, low nibble the clamped filter, c <= 0x77.                 *)
C3_ConfigWrite ==
    (call.op = "__init__" /\ call.tctype \in DOMAIN TypeIndex) =>
        LET c == Clamp07(call.tcfilter) + 16 * TypeIndex[call.tctype]
        IN  /\ call.raised \in {None, "BusIoError"}
            /\ (call.raised = None <=> wire.ok)
            /\ (call.raised = None <=> phase = "ready")
            /\ call.ntxn = 1
            /\ Len(bus) = 1
            /\ wire.kind = "write"
            /\ wire.in_len = 0
            /\ wire.out = <<5, c>>
            /\ wire.out[2] \div 16 = TypeIndex[call.tctype]
            /\ wire.out[2] % 16 = Clamp07(call.tcfilter)
            /\ wire.out[2] <= 119

\* type "R" with filter level 100: the write is [0x05, 0x77]
C3_Witness ==
    /\ call.op = "__init__"
    /\ call.tctype = "R"
    /\ call.tcfilter = 100
    /\ call.raised = None
    /\ phase = "ready"
    /\ wire.out = <<5, 119>>

(* C4: for a type that is none of the eight, whatever the filter level, the  *)
(* constructor raises the invalid-configuration error and has issued no      *)
(* transaction at all.                                                      *)
C4_InvalidTypeRaisesBeforeWrite ==
    (call.op = "__init__" /\ call.tctype \notin DOMAIN TypeIndex) =>
        /\ call.raised = "InvalidConfiguration"
        /\ phase = "failed"
        /\ call.ntxn = 0
        /\ bus = <<>>
        /\ wire = NoTxn

\* type "k", filter level 3
C4_Witness ==
    /\ call.op = "__init__"
    /\ call.tctype = "k"
    /\ call.tcfilter = 3
    /\ call.raised = "InvalidConfiguration"
    /\ bus = <<>>

\* the register map
RegisterOf ==
    [op \in Ops |->
        CASE op = "version" -> 32 [] op = "temperature" -> 0
          [] op = "delta_temperature" -> 1 [] op = "ambient_temperature" -> 2]

(* C5: after a successful construction and any sequence of queries the bus   *)
(* has seen one plain write, the configuration write to register 0x05 made   *)
(* by the constructor with no read, and for each query exactly one combined  *)
(* write-then-read whose address byte is that query's register; no query     *)
(* issues a plain write and register 0x05 is not addressed again.            *)
C5_OneWriteThenOneReadPerQuery ==
    phase = "ready" =>
        /\ Len(bus) = Len(calls)
        /\ calls[1] = "__init__"
        /\ bus[1].kind = "write"
        /\ bus[1].addr = 5
        /\ bus[1].in_len = 0
        /\ bus[1].ok
        /\ \A i \in 2..Len(bus) :
              /\ calls[i] \in Ops
              /\ bus[i].kind = "write_then_readinto"
              /\ bus[i].addr = RegisterOf[calls[i]]
              /\ bus[i].addr # 5
        /\ Cardinality({i \in 1..Len(bus) : bus[i].kind = "write"}) = 1
        /\ (call.op \in Ops => call.ntxn = 1)

\* a version read that failed on the bus, then an ambient temperature read
C5_Witness ==
    /\ phase = "ready"
    /\ Len(calls) >= 3
    /\ calls[2] = "version"
    /\ ~bus[2].ok
    /\ calls[3] = "ambient_temperature"
    /\ bus[3].ok
    /\ bus[3].addr = 2

(* C6: the version read returns the unsigned big-endian value (b1 << 8) | b2 *)
(* of the two payload bytes, the register-address byte at buffer offset 0    *)
(* left out, unscaled and without sign correction; [0x01, 0x20] reads 288.   *)
C6_VersionBigEndian ==
    Returned({"version"}) =>
        /\ call.value = Raw
        /\ call.value \in 0..65535
        /\ (call.resp.data = <<1, 32>> => call.value = 288)

\* payload [0xFF, 0xFF] reads 65535
C6_Witness ==
    /\ Returned({"version"})
    /\ call.resp.data = <<255, 255>>
    /\ call.value = 65535

\* the transactions of the last call
CallTxns ==
    {i \in 1..Len(bus) : i > Len(bus) - call.ntxn}

(* C7: when the bus fails a transaction of a call (the configuration write   *)
(* or a query's write-then-read), that call made exactly one transaction     *)
(* attempt and ended with the bus error, returning no value; and the driver  *)
(* reports a bus error only when the bus failed.                             *)
C7_BusErrorPropagates ==
    call.op # None =>
        /\ (\E i \in CallTxns : ~bus[i].ok) =>
              /\ call.ntxn = 1
              /\ call.raised = "BusIoError"
              /\ call.value = None
              /\ (call.op = "__init__" => phase = "failed")
        /\ call.raised = "BusIoError" => (\E i \in CallTxns : ~bus[i].ok)

\* a temperature read whose transaction the bus failed
C7_Witness ==
    /\ call.op = "temperature"
    /\ call.resp.ok = FALSE
    /\ call.ntxn = 1
    /\ ~wire.ok
    /\ call.raised = "BusIoError"

(* C8 as stated: the write phase of every register read transmits exactly    *)
(* one byte, the register address, and the read phase receives exactly       *)
(* byteCount bytes, the first stored at buffer offset 1.                     *)
C8_WritePhaseIsAddressOnly ==
    (call.op \in Ops /\ wire.kind = "write_then_readinto") =>
        /\ wire.out = <<RegisterOf[call.op]>>
        /\ wire.in_len = 2
        /\ wire.in_start = 1

\* the value a property returns for the payload bytes <<hi, lo>>
Expected(op, data) ==
    IF op = "version" THEN 256 * data[1] + data[2]
    ELSE LET tc == TwosComplement16(256 * data[1] + data[2])
         IN  [whole |-> tc \div 16, frac |-> tc % 16]

\* thread t addressed a register other than its own
Misaddressed(t) ==
    /\ thr.th[t].pc \in {"unpack", "sign", "done", "raised"}
    /\ thr.th[t].addressed # RegisterOf[thr.th[t].op]

\* thread t returned a value that its own payload does not decode to
Misdecoded(t) ==
    /\ thr.th[t].pc = "done"
    /\ thr.th[t].value # Expected(thr.th[t].op, thr.th[t].payload)

(* C9: two property reads on one instance that do not overlap (the callers   *)
(* serialize them) each address their own register and return the decode of  *)
(* their own payload; reads that overlap can address the other's register    *)
(* or return the decode of the other's payload (the witness).                *)
C9_SerializedCallsDoNotInterfere ==
    (phase = "ready" /\ ~thr.overlapped) =>
        \A t \in Threads : ~Misaddressed(t) /\ ~Misdecoded(t)

\* overlapping reads: A addressed B's register and returned the decode of
\* the bytes the device sent to B
C9_Witness ==
    /\ thr.overlapped
    /\ Misaddressed("A")
    /\ thr.th["A"].addressed = RegisterOf[thr.th["B"].op]
    /\ Misdecoded("A")
    /\ thr.th["B"].payload # <<>>
    /\ thr.th["A"].value = Expected(thr.th["A"].op, thr.th["B"].payload)

(* C10: with one caller, a query that returns after a successful             *)
(* construction and any queries before it (returned or failed) returns what  *)
(* a driver with a separate zeroed receive buffer would return for the two   *)
(* bytes of this query's own transaction, whatever the scratch buffer held.  *)
C10_ValueFromOwnPayloadOnly ==
    Returned(Ops) =>
        LET rx == [i \in 0..1 |-> call.resp.data[i + 1]]
            raw == 256 * rx[0] + rx[1]
        IN  IF call.op = "version"
            THEN call.value = raw
            ELSE TempSixteenths(call.value) = TwosComplement16(raw)

\* a read after a failed one, the scratch buffer still holding a byte of an
\* earlier read that differs from this read's first byte
C10_Witness ==
    /\ Returned({"temperature"})
    /\ Len(bus) >= 4
    /\ ~bus[Len(bus) - 1].ok
    /\ wire.out[2] = 144
    /\ call.resp.data = <<1, 144>>
    /\ call.value = [whole |-> 25, frac |-> 0]

=============================================================================
